---------------------------- MODULE Spec2Model ----------------------------
(***************************************************************************)
(* Bid2Ship backend (backend/server.py): the users, shipments and bids     *)
(* collections of the backing store and the request handlers that read and *)
(* write them.  Every handler is a coroutine; each `await db....` is one    *)
(* atomic store operation and a point where another request may run.  A    *)
(* handler is therefore modelled as a sequence of steps, one per store     *)
(* operation, with the handler's local variables kept in its request slot. *)
(***************************************************************************)
EXTENDS Integers, FiniteSets, Sequences, TLC

VARIABLES
    users,      \* db.users: set of user documents
    shipments,  \* db.shipments: set of shipment documents
    bids,       \* db.bids: set of bid documents
    req         \* the requests in flight: slot -> handler frame

vars == <<users, shipments, bids, req>>

----------------------------------------------------------------------------
(* Bounds of the model *)

\* concurrent requests the server handles at once
NumSlots == 2
\* shipment documents ever created
MaxShipments == 1
\* bid documents ever created
MaxBids == 2

Slots == 1..NumSlots

----------------------------------------------------------------------------
(* Enums (server.py 34-47) *)

UserRole == {"shipper", "driver"}
ShipmentStatus == {"posted", "bidding_closed", "in_transit", "delivered"}
BidStatus == {"pending", "accepted", "rejected"}

----------------------------------------------------------------------------
(* Inputs the clients send *)

Salts == {"salt"}
Passwords == {"pw", "bad"}

\* UserCreate bodies: each email registers with one role and one password
UserCreate ==
    { [email |-> "s1", password |-> "pw", role |-> "shipper"],
      [email |-> "s2", password |-> "pw", role |-> "shipper"],
      [email |-> "d1", password |-> "pw", role |-> "driver"],
      [email |-> "d2", password |-> "pw", role |-> "driver"] }

Emails == {u.email : u \in UserCreate}

\* the registrations sent while the auction runs: a new email and a taken one
NewUsers == {d \in UserCreate : d.email \in {"d1", "d2"}}

\* HTTP basic credentials
Credentials == [username : Emails, password : Passwords]

\* amount and message of a BidCreate body
BidOffer == { [amount |-> 700, message |-> "none"],
              [amount |-> 650, message |-> "text"] }

----------------------------------------------------------------------------
(* Identifiers.  The code draws every id with uuid4: opaque and fresh.  The *)
(* model names the n-th document inserted for the same owner <<owner, n>>,  *)
(* which is fresh because no document is ever deleted.                      *)

NoUserId == <<"", 0>>
NoShipmentId == <<NoUserId, 0>>
NoBidId == <<NoUserId, NoShipmentId, 0>>

NewUserId(email) ==
    <<email, Cardinality({u \in users : u.email = email})>>
NewShipmentId(shipper_id) ==
    <<shipper_id, Cardinality({s \in shipments : s.shipper_id = shipper_id})>>
NewBidId(driver_id, shipment_id) ==
    <<driver_id, shipment_id,
      Cardinality({b \in bids : b.driver_id = driver_id
                                /\ b.shipment_id = shipment_id})>>

----------------------------------------------------------------------------
(* Password hashing (server.py 121-134).  pbkdf2_hmac is modelled as an     *)
(* injective function of (password, salt).                                  *)

pbkdf2_hmac(password, salt) == <<password, salt>>

hash_password(password, salt) ==
    [salt |-> salt, hash |-> pbkdf2_hmac(password, salt)]

verify_password(password, hashed) ==
    hashed.hash = pbkdf2_hmac(password, hashed.salt)

----------------------------------------------------------------------------
(* Store queries *)

NoUser == [id |-> NoUserId, email |-> "", role |-> "none",
           password_hash |-> hash_password("", "")]

\* db.users.find_one({"email": email}): the first matching document in
\* insertion order, NoUser when none matches
FindUserByEmail(email) ==
    LET found == {u \in users : u.email = email}
    IN  IF found = {} THEN NoUser
        ELSE CHOOSE u \in found : \A v \in found : u.id[2] <= v.id[2]

NoShipment == [id |-> NoShipmentId, shipper_id |-> NoUserId, status |-> "none",
               created_at |-> 0]

\* db.shipments.find_one({"id": shipment_id})
FindShipment(shipment_id) ==
    LET found == {s \in shipments : s.id = shipment_id}
    IN  IF found = {} THEN NoShipment ELSE CHOOSE s \in found : TRUE

NoBid == [id |-> NoBidId, driver_id |-> NoUserId, shipment_id |-> NoShipmentId,
          amount |-> 0, message |-> "none", status |-> "none"]

\* db.bids.find_one({"id": bid_id})
FindBid(bid_id) ==
    LET found == {b \in bids : b.id = bid_id}
    IN  IF found = {} THEN NoBid ELSE CHOOSE b \in found : TRUE

\* db.bids.find_one({"driver_id": ..., "shipment_id": ...}) is not None
ExistingBid(driver_id, shipment_id) ==
    \E b \in bids : b.driver_id = driver_id /\ b.shipment_id = shipment_id

----------------------------------------------------------------------------
(* Responses: status code and detail of the HTTPException, or 200 *)

Ok == [status_code |-> 200, detail |-> "ok"]
NoResult == [status_code |-> 0, detail |-> ""]
HTTPException(code, detail) == [status_code |-> code, detail |-> detail]

InvalidCredentials == HTTPException(401, "Invalid credentials")
DuplicateEmail == HTTPException(400, "Email already registered")
ForbiddenShipment == HTTPException(403, "Only shippers can create shipments")
ForbiddenBid == HTTPException(403, "Only drivers can place bids")
ForbiddenAccept == HTTPException(403, "Only shippers can accept bids")
ShipmentNotFound == HTTPException(404, "Shipment not found")
ShipmentNotOpen == HTTPException(400, "Shipment is not open for bidding")
DuplicateBid ==
    HTTPException(400, "You have already placed a bid on this shipment")
BidNotFound == HTTPException(404, "Bid not found")
NotOwner ==
    HTTPException(403, "You can only accept bids on your own shipments")

----------------------------------------------------------------------------
(* Request frames *)

NoUserCreate == [email |-> "", password |-> "", role |-> "none"]
NoUserLogin == [email |-> "", password |-> ""]
NoBidCreate == [shipment_id |-> NoShipmentId, amount |-> 0, message |-> "none"]

\* An empty slot.  peers, had_bid, not_open, resolved, not_owner and taken
\* are history fields: what held when the request arrived.
Idle ==
    [pc |-> "idle", op |-> "none",
     current_user |-> NoUserId,     \* id of the authenticated user
     user_data |-> NoUserCreate,    \* register_user's body
     bid_create |-> NoBidCreate,    \* create_bid's body
     bid_id |-> NoBidId,            \* accept_bid's path parameter
     bid_data |-> NoShipmentId,     \* accept_bid: bid_data["shipment_id"]
     login_data |-> NoUserLogin,    \* login_user's body
     status |-> "none",             \* get_shipments' status filter
     result |-> NoResult,
     listing |-> <<>>,              \* the list a read handler returns
     shipment_id |-> NoShipmentId,  \* get_shipment's path parameter
     shipment |-> NoShipment,       \* get_shipment: the shipment it read
     my_shipments |-> <<>>,         \* get_my_shipments: shipments to visit
     peers |-> {},                  \* slots in flight when this one arrived
     had_bid |-> FALSE,             \* create_bid: the driver already had a bid
     not_open |-> FALSE,            \* create_bid: the shipment was not posted
     resolved |-> FALSE,            \* accept_bid: the bid was not pending
     not_owner |-> FALSE,           \* accept_bid: caller does not own shipment
     taken |-> FALSE]               \* register_user: the email was registered

InFlight(q) == req[q].pc \notin {"idle", "done"}

\* the frame of a request arriving in a free slot
Arrive(op) == [Idle EXCEPT !.op = op, !.peers = {q \in Slots : InFlight(q)}]

\* The handler returns or raises: its locals are gone, the response and what
\* the request was for remain until the slot is taken again.
Respond(frame, result) ==
    [frame EXCEPT !.pc = "done", !.result = result,
                  !.user_data = NoUserCreate,
                  !.shipment = NoShipment,
                  !.my_shipments = <<>>,
                  !.bid_create = [NoBidCreate EXCEPT
                                    !.shipment_id = frame.bid_create.shipment_id]]

\* a registered user's document: register_user's insert (line 179-186)
UserDocument(user_data, salt) ==
    [id |-> NewUserId(user_data.email), email |-> user_data.email,
     role |-> user_data.role,
     password_hash |-> hash_password(user_data.password, salt)]

\* The backing store outlives the server process.  The auction starts from a
\* store in which shippers s1 and s2 and driver d1 have registered and no
\* shipment has been posted; driver d2 registers while it runs.
Registered == {d \in UserCreate : d.email \in {"s1", "s2", "d1"}}

Init ==
    /\ users = {[id |-> <<d.email, 0>>, email |-> d.email, role |-> d.role,
                 password_hash |-> hash_password(d.password, "salt")]
                    : d \in Registered}
    /\ shipments = {}
    /\ bids = {}
    /\ req = [r \in Slots |-> Idle]

----------------------------------------------------------------------------
(* get_current_user (server.py 156-163): the user the credentials name, or  *)
(* NoUser when the handler is to answer 401                                 *)

get_current_user(credentials) ==
    LET user_data == FindUserByEmail(credentials.username)
    IN  IF user_data = NoUser
           \/ ~verify_password(credentials.password, user_data.password_hash)
        THEN NoUser
        ELSE user_data

\* variant: the role check is left out
HasRole_Any(user, role) == user # NoUser

\* the role check of a handler (line 209, 274, 312)
HasRole(user, role) == user.role = role

----------------------------------------------------------------------------
(* register_user (server.py 171-189) *)

\* variant: the lookup also matches on the role
EmailTaken_SameRole(user_data) ==
    \E u \in users : u.email = user_data.email /\ u.role = user_data.role

\* line 174-175: a user with this email exists
EmailTaken(user_data) == FindUserByEmail(user_data.email) # NoUser

\* line 174-176: look the email up, 400 when it is taken
RegisterFind(r, user_data) ==
    /\ req[r].pc = "idle"
    /\ LET f == [Arrive("register_user") EXCEPT
                    !.user_data = user_data,
                    !.taken = \E u \in users : u.email = user_data.email]
       IN  req' = [req EXCEPT ![r] =
                IF EmailTaken(user_data) THEN Respond(f, DuplicateEmail)
                ELSE [f EXCEPT !.pc = "reg_insert"]]
    /\ UNCHANGED <<users, shipments, bids>>

\* line 179-189: hash the password with a fresh salt and insert the user
RegisterInsert(r, salt) ==
    /\ req[r].pc = "reg_insert"
    /\ users' = users \cup {UserDocument(req[r].user_data, salt)}
    /\ req' = [req EXCEPT ![r] = Respond(req[r], Ok)]
    /\ UNCHANGED <<shipments, bids>>

----------------------------------------------------------------------------
(* login_user (server.py 191-200) *)

\* line 193-200: one lookup, then 401 or the user's profile
LoginUser(r, login_data) ==
    /\ req[r].pc = "idle"
    /\ LET user_data == FindUserByEmail(login_data.email)
           f == [Arrive("login_user") EXCEPT !.login_data = login_data]
       IN  req' = [req EXCEPT ![r] =
                IF user_data = NoUser
                   \/ ~verify_password(login_data.password,
                                       user_data.password_hash)
                THEN Respond(f, InvalidCredentials)
                ELSE Respond(f, Ok)]
    /\ UNCHANGED <<users, shipments, bids>>

----------------------------------------------------------------------------
(* create_shipment (server.py 207-219) *)

ShipmentsPlanned ==
    Cardinality(shipments) + Cardinality({q \in Slots : req[q].pc = "cs_insert"})

\* line 208-210: authenticate, then the role check
CreateShipmentAuth(r, credentials) ==
    /\ req[r].pc = "idle"
    /\ ShipmentsPlanned < MaxShipments
    /\ LET user == get_current_user(credentials)
           f == [Arrive("create_shipment") EXCEPT !.current_user = user.id]
       IN  req' = [req EXCEPT ![r] =
                IF user = NoUser THEN Respond(f, InvalidCredentials)
                ELSE IF ~HasRole(user, "shipper")
                THEN Respond(f, ForbiddenShipment)
                ELSE [f EXCEPT !.pc = "cs_insert"]]
    /\ UNCHANGED <<users, shipments, bids>>

\* datetime.now (line 91): a clock that has advanced since the last shipment
\* was posted
Now == Cardinality(shipments) + 1

\* line 212-216: the shipment document, status posted
ShipmentDocument(shipper_id) ==
    [id |-> NewShipmentId(shipper_id), shipper_id |-> shipper_id,
     status |-> "posted", created_at |-> Now]

\* line 212-219: insert the shipment, status posted
CreateShipmentInsert(r) ==
    /\ req[r].pc = "cs_insert"
    /\ shipments' = shipments \cup {ShipmentDocument(req[r].current_user)}
    /\ req' = [req EXCEPT ![r] = Respond(req[r], Ok)]
    /\ UNCHANGED <<users, bids>>

----------------------------------------------------------------------------
(* get_shipments (server.py 221-228) *)

\* to_list(100)
ListLimit == 100

\* line 223-225: the documents the query matches
Matching(status) ==
    IF status = "none" THEN shipments
    ELSE {s \in shipments : s.status = status}

\* the documents of S one after the other, in an order the store chooses
RECURSIVE Cursor(_)
Cursor(S) ==
    IF S = {} THEN <<>>
    ELSE LET x == CHOOSE y \in S : TRUE IN <<x>> \o Cursor(S \ {x})

\* the documents of S, all created in lo..hi, newest first; documents created
\* at the same instant follow each other in the store's order
RECURSIVE NewestFirst(_, _, _)
NewestFirst(S, lo, hi) ==
    IF S = {} THEN <<>>
    ELSE IF lo >= hi THEN Cursor(S)
    ELSE LET mid == (lo + hi) \div 2
         IN  NewestFirst({x \in S : x.created_at > mid}, mid + 1, hi)
             \o NewestFirst({x \in S : x.created_at <= mid}, lo, mid)

\* variant: sort("created_at", 1)
SortByCreatedAt_Ascending(S) ==
    LET docs == NewestFirst(S, 0, Cardinality(shipments))
    IN  [i \in 1..Len(docs) |-> docs[Len(docs) + 1 - i]]

\* sort("created_at", -1); every created_at is in 0..Cardinality(shipments).
\* The store holds created_at as the isoformat text of a UTC time (line 140),
\* and the order of these texts is the order of the times.
SortByCreatedAt(S) == NewestFirst(S, 0, Cardinality(shipments))

\* to_list(length): the first length documents of the cursor
ToList(docs, length) ==
    SubSeq(docs, 1, IF Len(docs) < length THEN Len(docs) ELSE length)

\* line 222-228: one query, no authentication
GetShipments(r, status) ==
    /\ req[r].pc = "idle"
    /\ req' = [req EXCEPT ![r] =
            Respond([Arrive("get_shipments") EXCEPT
                        !.status = status,
                        !.listing = ToList(SortByCreatedAt(Matching(status)),
                                           ListLimit)],
                    Ok)]
    /\ UNCHANGED <<users, shipments, bids>>

----------------------------------------------------------------------------
(* get_shipment (server.py 253-269) and get_my_shipments (server.py 230-251) *)

\* to_list(100) of the bids query (lines 237, 262)
BidLimit == 100

\* the largest amount among the bids of S, 0 when S is empty
MaxAmount(S) ==
    IF S = {} THEN 0
    ELSE LET top == CHOOSE b \in S : \A c \in S : c.amount <= b.amount
         IN  top.amount

\* the bids of S, all with amounts in lo..hi, lowest amount first; bids of the
\* same amount follow each other in the store's order
RECURSIVE LowestFirst(_, _, _)
LowestFirst(S, lo, hi) ==
    IF S = {} THEN <<>>
    ELSE IF lo >= hi THEN Cursor(S)
    ELSE LET mid == (lo + hi) \div 2
         IN  LowestFirst({x \in S : x.amount <= mid}, lo, mid)
             \o LowestFirst({x \in S : x.amount > mid}, mid + 1, hi)

\* sort("amount", 1)
SortByAmount(S) == LowestFirst(S, 0, MaxAmount(S))

\* line 237, 262: find({"shipment_id": ...}).sort("amount", 1).to_list(100)
FindBidsOfShipment(shipment_id) ==
    ToList(SortByAmount({b \in bids : b.shipment_id = shipment_id}), BidLimit)

\* line 240-244, 265-269: ShipmentWithBids(shipment, bids, len(bids))
ShipmentWithBids(shipment, bids_data) ==
    [shipment |-> shipment, bids |-> bids_data, bid_count |-> Len(bids_data)]

\* line 255-257: the shipment exists; no authentication
GetShipmentFind(r, shipment_id) ==
    /\ req[r].pc = "idle"
    /\ LET shipment_data == FindShipment(shipment_id)
           f == [Arrive("get_shipment") EXCEPT !.shipment_id = shipment_id]
       IN  req' = [req EXCEPT ![r] =
                IF shipment_data = NoShipment THEN Respond(f, ShipmentNotFound)
                ELSE [f EXCEPT !.pc = "gs_find_bids",
                               !.shipment = shipment_data]]
    /\ UNCHANGED <<users, shipments, bids>>

\* line 262-269: the bids of the shipment
GetShipmentFindBids(r) ==
    /\ req[r].pc = "gs_find_bids"
    /\ req' = [req EXCEPT ![r] =
            Respond([req[r] EXCEPT !.listing =
                        <<ShipmentWithBids(req[r].shipment,
                              FindBidsOfShipment(req[r].shipment_id))>>],
                    Ok)]
    /\ UNCHANGED <<users, shipments, bids>>

ForbiddenMyShipments ==
    HTTPException(403, "Only shippers can view their shipments")

\* line 231-233: authenticate, then the role check
GetMyShipmentsAuth(r, credentials) ==
    /\ req[r].pc = "idle"
    /\ LET user == get_current_user(credentials)
           f == [Arrive("get_my_shipments") EXCEPT !.current_user = user.id]
       IN  req' = [req EXCEPT ![r] =
                IF user = NoUser THEN Respond(f, InvalidCredentials)
                ELSE IF ~HasRole(user, "shipper")
                THEN Respond(f, ForbiddenMyShipments)
                ELSE [f EXCEPT !.pc = "gm_find"]]
    /\ UNCHANGED <<users, shipments, bids>>

\* line 235: the caller's shipments, newest first, at most ListLimit
FindMyShipments(user_id) ==
    ToList(SortByCreatedAt({s \in shipments : s.shipper_id = user_id}),
           ListLimit)

\* line 235-238, 251: the shipments query; an empty loop returns at once
GetMyShipmentsFind(r) ==
    /\ req[r].pc = "gm_find"
    /\ LET found == FindMyShipments(req[r].current_user)
       IN  req' = [req EXCEPT ![r] =
                IF found = <<>> THEN Respond(req[r], Ok)
                ELSE [req[r] EXCEPT !.pc = "gm_find_bids",
                                    !.my_shipments = found]]
    /\ UNCHANGED <<users, shipments, bids>>

\* line 238-251: one turn of the loop, the bids of the next shipment; the
\* handler returns after the last one
GetMyShipmentsFindBids(r) ==
    /\ req[r].pc = "gm_find_bids"
    /\ LET shipment == Head(req[r].my_shipments)
           f == [req[r] EXCEPT
                    !.my_shipments = Tail(@),
                    !.listing = Append(@, ShipmentWithBids(shipment,
                                        FindBidsOfShipment(shipment.id)))]
       IN  req' = [req EXCEPT ![r] =
                IF f.my_shipments = <<>> THEN Respond(f, Ok) ELSE f]
    /\ UNCHANGED <<users, shipments, bids>>

----------------------------------------------------------------------------
(* create_bid (server.py 272-300) *)

BidsPlanned ==
    Cardinality(bids)
    + Cardinality({q \in Slots :
            req[q].pc \in {"cb_find_shipment", "cb_find_bid", "cb_insert"}})

\* variant: the status check is left out
IsPosted_Unchecked(shipment_data) == shipment_data # NoShipment

\* line 282: the shipment read is open for bidding
IsPosted(shipment_data) == shipment_data.status = "posted"

\* variant: the duplicate query also matches on the amount
HasExistingBid_SameAmount(driver_id, bid_create) ==
    \E b \in bids : /\ b.driver_id = driver_id
                    /\ b.shipment_id = bid_create.shipment_id
                    /\ b.amount = bid_create.amount

\* variant: a missing shipment is not reported
ShipmentCheck_Missing(shipment_data) ==
    IF shipment_data # NoShipment /\ ~IsPosted(shipment_data)
    THEN ShipmentNotOpen
    ELSE NoResult

\* variant: the status is tested before the existence
ShipmentCheck_StatusFirst(shipment_data) ==
    IF ~IsPosted(shipment_data) THEN ShipmentNotOpen
    ELSE IF shipment_data = NoShipment THEN ShipmentNotFound
    ELSE NoResult

\* line 279-283: the error create_bid raises for the shipment it read, NoResult
\* when it raises none
ShipmentCheck(shipment_data) ==
    IF shipment_data = NoShipment THEN ShipmentNotFound
    ELSE IF ~IsPosted(shipment_data) THEN ShipmentNotOpen
    ELSE NoResult

\* line 286-290: the driver already has a bid on the shipment
HasExistingBid(driver_id, bid_create) ==
    ExistingBid(driver_id, bid_create.shipment_id)

\* line 293-297: the bid document, status pending
BidDocument(driver_id, bid_create) ==
    [id |-> NewBidId(driver_id, bid_create.shipment_id),
     driver_id |-> driver_id, shipment_id |-> bid_create.shipment_id,
     amount |-> bid_create.amount, message |-> bid_create.message,
     status |-> "pending"]

\* line 273-275: authenticate, then the role check
CreateBidAuth(r, credentials, bid_create) ==
    /\ req[r].pc = "idle"
    /\ BidsPlanned < MaxBids
    /\ LET user == get_current_user(credentials)
           shipment == FindShipment(bid_create.shipment_id)
           f == [Arrive("create_bid") EXCEPT
                    !.current_user = user.id,
                    !.bid_create = bid_create,
                    !.had_bid = ExistingBid(user.id, bid_create.shipment_id),
                    !.not_open = shipment # NoShipment
                                 /\ shipment.status # "posted"]
       IN  req' = [req EXCEPT ![r] =
                IF user = NoUser THEN Respond(f, InvalidCredentials)
                ELSE IF ~HasRole(user, "driver") THEN Respond(f, ForbiddenBid)
                ELSE [f EXCEPT !.pc = "cb_find_shipment"]]
    /\ UNCHANGED <<users, shipments, bids>>

\* line 278-283: the shipment exists and is posted
CreateBidFindShipment(r) ==
    /\ req[r].pc = "cb_find_shipment"
    /\ LET shipment_data == FindShipment(req[r].bid_create.shipment_id)
       IN  req' = [req EXCEPT ![r] =
                IF ShipmentCheck(shipment_data) # NoResult
                THEN Respond(req[r], ShipmentCheck(shipment_data))
                ELSE [req[r] EXCEPT !.pc = "cb_find_bid"]]
    /\ UNCHANGED <<users, shipments, bids>>

\* line 286-291: no bid of this driver on this shipment yet
CreateBidFindBid(r) ==
    /\ req[r].pc = "cb_find_bid"
    /\ req' = [req EXCEPT ![r] =
            IF HasExistingBid(req[r].current_user, req[r].bid_create)
            THEN Respond(req[r], DuplicateBid)
            ELSE [req[r] EXCEPT !.pc = "cb_insert"]]
    /\ UNCHANGED <<users, shipments, bids>>

\* line 293-300: insert the bid
CreateBidInsert(r) ==
    /\ req[r].pc = "cb_insert"
    /\ bids' = bids \cup {BidDocument(req[r].current_user, req[r].bid_create)}
    /\ req' = [req EXCEPT ![r] = Respond(req[r], Ok)]
    /\ UNCHANGED <<users, shipments>>

----------------------------------------------------------------------------
(* accept_bid (server.py 310-338) *)

\* variant: only the existence of the shipment is checked
OwnsShipment_AnyShipper(shipment_data, user_id) == shipment_data # NoShipment

\* line 322: the shipment was found and belongs to the caller
OwnsShipment(shipment_data, user_id) ==
    shipment_data # NoShipment /\ shipment_data.shipper_id = user_id

\* variant: the update matches the bid's shipment instead of its id
AcceptTarget_WholeShipment(bid_id) ==
    {IF b.shipment_id = FindBid(bid_id).shipment_id
     THEN [b EXCEPT !.status = "accepted"] ELSE b : b \in bids}

\* line 326: update_one({"id": bid_id}, {"$set": {"status": accepted}})
AcceptTarget(bid_id) ==
    {IF b.id = bid_id THEN [b EXCEPT !.status = "accepted"] ELSE b : b \in bids}

\* variant: the shipment_id filter is left out
RejectOthers_Everywhere(shipment_id, bid_id) ==
    {IF b.id # bid_id THEN [b EXCEPT !.status = "rejected"] ELSE b : b \in bids}

\* variant: the $ne filter is left out
RejectOthers_All(shipment_id, bid_id) ==
    {IF b.shipment_id = shipment_id
     THEN [b EXCEPT !.status = "rejected"] ELSE b : b \in bids}

\* line 327-330: update_many({"shipment_id": ..., "id": {"$ne": bid_id}},
\*                           {"$set": {"status": rejected}})
RejectOthers(shipment_id, bid_id) ==
    {IF b.shipment_id = shipment_id /\ b.id # bid_id
     THEN [b EXCEPT !.status = "rejected"] ELSE b : b \in bids}

\* variant: the shipment is moved to the next status but one
CloseShipment_InTransit(shipment_id) ==
    {IF s.id = shipment_id THEN [s EXCEPT !.status = "in_transit"] ELSE s
        : s \in shipments}

\* line 333-336: update_one({"id": ...}, {"$set": {"status": bidding_closed}})
CloseShipment(shipment_id) ==
    {IF s.id = shipment_id THEN [s EXCEPT !.status = "bidding_closed"] ELSE s
        : s \in shipments}

\* line 311-313: authenticate, then the role check
AcceptBidAuth(r, credentials, bid_id) ==
    /\ req[r].pc = "idle"
    /\ LET user == get_current_user(credentials)
           bid == FindBid(bid_id)
           f == [Arrive("accept_bid") EXCEPT
                    !.current_user = user.id,
                    !.bid_id = bid_id,
                    !.resolved = bid # NoBid /\ bid.status # "pending",
                    !.not_owner = bid # NoBid
                        /\ FindShipment(bid.shipment_id).shipper_id # user.id]
       IN  req' = [req EXCEPT ![r] =
                IF user = NoUser THEN Respond(f, InvalidCredentials)
                ELSE IF ~HasRole(user, "shipper")
                THEN Respond(f, ForbiddenAccept)
                ELSE [f EXCEPT !.pc = "ab_find_bid"]]
    /\ UNCHANGED <<users, shipments, bids>>

\* line 316-318: get the bid
AcceptBidFindBid(r) ==
    /\ req[r].pc = "ab_find_bid"
    /\ LET bid_data == FindBid(req[r].bid_id)
       IN  req' = [req EXCEPT ![r] =
                IF bid_data = NoBid THEN Respond(req[r], BidNotFound)
                ELSE [req[r] EXCEPT !.pc = "ab_find_shipment",
                                    !.bid_data = bid_data.shipment_id]]
    /\ UNCHANGED <<users, shipments, bids>>

\* variant: the bid is accepted before the ownership check
AcceptBidFindShipment_WriteFirst(r) ==
    /\ req[r].pc = "ab_find_shipment"
    /\ bids' = AcceptTarget(req[r].bid_id)
    /\ LET shipment_data == FindShipment(req[r].bid_data)
       IN  req' = [req EXCEPT ![r] =
                IF ~OwnsShipment(shipment_data, req[r].current_user)
                THEN Respond(req[r], NotOwner)
                ELSE [req[r] EXCEPT !.pc = "ab_accept"]]
    /\ UNCHANGED <<users, shipments>>

\* line 321-323: the shipment belongs to the current user
AcceptBidFindShipment(r) ==
    /\ req[r].pc = "ab_find_shipment"
    /\ LET shipment_data == FindShipment(req[r].bid_data)
       IN  req' = [req EXCEPT ![r] =
                IF ~OwnsShipment(shipment_data, req[r].current_user)
                THEN Respond(req[r], NotOwner)
                ELSE [req[r] EXCEPT !.pc = "ab_accept"]]
    /\ UNCHANGED <<users, shipments, bids>>

\* line 326: accept the bid
AcceptBidAccept(r) ==
    /\ req[r].pc = "ab_accept"
    /\ bids' = AcceptTarget(req[r].bid_id)
    /\ req' = [req EXCEPT ![r].pc = "ab_reject"]
    /\ UNCHANGED <<users, shipments>>

\* line 327-330: reject the others
AcceptBidReject(r) ==
    /\ req[r].pc = "ab_reject"
    /\ bids' = RejectOthers(req[r].bid_data, req[r].bid_id)
    /\ req' = [req EXCEPT ![r].pc = "ab_close"]
    /\ UNCHANGED <<users, shipments>>

\* line 333-338: close the shipment and answer
AcceptBidClose(r) ==
    /\ req[r].pc = "ab_close"
    /\ shipments' = CloseShipment(req[r].bid_data)
    /\ req' = [req EXCEPT ![r] = Respond(req[r], Ok)]
    /\ UNCHANGED <<users, bids>>

----------------------------------------------------------------------------
\* the response has been sent: the slot is free again
Retire(r) ==
    /\ req[r].pc = "done"
    /\ req' = [q \in Slots |->
                IF q = r THEN Idle
                ELSE [req[q] EXCEPT !.peers = @ \ {r}]]
    /\ UNCHANGED <<users, shipments, bids>>

\* the ids a client can name: those it was given, and one that names nothing
ShipmentIds == {s.id : s \in shipments} \cup {NoShipmentId}
BidIds == {b.id : b \in bids} \cup {NoBidId}

Step(r) ==
    \/ \E d \in NewUsers : RegisterFind(r, d)
    \/ \E s \in Salts : RegisterInsert(r, s)
    \/ \E c \in Credentials : CreateShipmentAuth(r, c)
    \/ CreateShipmentInsert(r)
    \/ \E c \in Credentials, o \in BidOffer, s \in ShipmentIds :
            CreateBidAuth(r, c, [shipment_id |-> s, amount |-> o.amount,
                                 message |-> o.message])
    \/ CreateBidFindShipment(r)
    \/ CreateBidFindBid(r)
    \/ CreateBidInsert(r)
    \/ \E c \in Credentials, b \in BidIds : AcceptBidAuth(r, c, b)
    \/ AcceptBidFindBid(r)
    \/ AcceptBidFindShipment(r)
    \/ AcceptBidAccept(r)
    \/ AcceptBidReject(r)
    \/ AcceptBidClose(r)
    \/ Retire(r)

Next == \E r \in Slots : Step(r)

\* concurrent requests: any slot steps at any time
Spec == Init /\ [][Next]_vars

\* one request at a time: a request arrives and steps only while no other
\* request is in flight
NextSeq == \E r \in Slots : (\A q \in Slots \ {r} : ~InFlight(q)) /\ Step(r)

SpecSeq == Init /\ [][NextSeq]_vars

----------------------------------------------------------------------------
(* Registration and login on an empty store *)

\* register_user bodies: two emails, any password, any role
AnyUserCreate ==
    [email : {"s1", "d1"}, password : Passwords, role : UserRole]

\* login_user bodies: the two emails and one that never registers
UserLogin == [email : {"s1", "d1", "d2"}, password : Passwords]

InitUsers ==
    /\ users = {}
    /\ shipments = {}
    /\ bids = {}
    /\ req = [r \in Slots |-> Idle]

StepUsers(r) ==
    \/ \E d \in AnyUserCreate : RegisterFind(r, d)
    \/ \E s \in Salts : RegisterInsert(r, s)
    \/ \E l \in UserLogin : LoginUser(r, l)
    \/ Retire(r)

NextUsers == \E r \in Slots : StepUsers(r)

SpecUsers == InitUsers /\ [][NextUsers]_vars

----------------------------------------------------------------------------
(* Listing a store that holds about ListLimit shipments *)

\* shipments beyond ListLimit in the largest store
MaxExtra == 1

StoreSizes == {0, 2} \cup (ListLimit .. ListLimit + MaxExtra)

\* which of n shipments, numbered from the oldest, have been closed
ClosedOnes(n, pattern) ==
    CASE pattern = "none" -> {}
      [] pattern = "oldest" -> {0}
      [] pattern = "newest" -> {n - 1}
      [] pattern = "odd" -> {i \in 0..(n - 1) : i % 2 = 1}

\* the store after shipper s1 has posted n shipments, one after the other,
\* and has accepted driver d1's bid on those in closed
ShipmentsPosted(n, closed) ==
    {[id |-> <<<<"s1", 0>>, i>>, shipper_id |-> <<"s1", 0>>,
      status |-> IF i \in closed THEN "bidding_closed" ELSE "posted",
      created_at |-> i + 1] : i \in 0..(n - 1)}

BidsAccepted(n, closed) ==
    {[id |-> <<<<"d1", 0>>, <<<<"s1", 0>>, i>>, 0>>, driver_id |-> <<"d1", 0>>,
      shipment_id |-> <<<<"s1", 0>>, i>>, amount |-> 700, message |-> "none",
      status |-> "accepted"] : i \in closed \cap 0..(n - 1)}

InitList ==
    /\ users = {[id |-> <<d.email, 0>>, email |-> d.email, role |-> d.role,
                 password_hash |-> hash_password(d.password, "salt")]
                    : d \in Registered}
    /\ \E n \in StoreSizes, pattern \in {"none", "oldest", "newest", "odd"} :
            /\ shipments = ShipmentsPosted(n, ClosedOnes(n, pattern))
            /\ bids = BidsAccepted(n, ClosedOnes(n, pattern))
    /\ req = [r \in Slots |-> Idle]

StepList(r) ==
    \/ \E status \in ShipmentStatus \cup {"none"} : GetShipments(r, status)
    \/ Retire(r)

NextList == \E r \in Slots : StepList(r)

SpecList == InitList /\ [][NextList]_vars

----------------------------------------------------------------------------
(* Reading a shipment that holds about BidLimit bids *)

\* the email of the i-th driver
DriverEmail(i) == "d" \o ToString(i)

BidStoreSizes == {0, 2} \cup (BidLimit .. BidLimit + MaxExtra)

\* the amount the i-th driver offers: five amounts, in no order
OfferOf(i) == 600 + ((i * 7) % 5) * 10

\* the drivers d1, d2, ... that have registered
DriversRegistered(n) ==
    {[id |-> <<DriverEmail(i), 0>>, email |-> DriverEmail(i),
      role |-> "driver", password_hash |-> hash_password("pw", "salt")]
        : i \in 1..n}

\* the store after the first n drivers have bid on shipper s1's first shipment
\* and driver d1 on the second
BidsPlaced(n) ==
    {[id |-> <<<<DriverEmail(i), 0>>, <<<<"s1", 0>>, 0>>, 0>>,
      driver_id |-> <<DriverEmail(i), 0>>, shipment_id |-> <<<<"s1", 0>>, 0>>,
      amount |-> OfferOf(i), message |-> "none", status |-> "pending"]
        : i \in 1..n}
    \cup {[id |-> <<<<"d1", 0>>, <<<<"s1", 0>>, 1>>, 0>>,
           driver_id |-> <<"d1", 0>>, shipment_id |-> <<<<"s1", 0>>, 1>>,
           amount |-> 650, message |-> "text", status |-> "pending"]}

InitBids ==
    /\ users = {[id |-> <<d.email, 0>>, email |-> d.email, role |-> d.role,
                 password_hash |-> hash_password(d.password, "salt")]
                    : d \in {u \in UserCreate : u.role = "shipper"}}
               \cup DriversRegistered(BidLimit + MaxExtra)
    /\ shipments = ShipmentsPosted(2, {})
    /\ \E n \in BidStoreSizes : bids = BidsPlaced(n)
    /\ req = [r \in Slots |-> Idle]

StepBids(r) ==
    \/ \E s \in ShipmentIds : GetShipmentFind(r, s)
    \/ GetShipmentFindBids(r)
    \/ \E c \in [username : {"s1", "s2", "d1"}, password : Passwords] :
            GetMyShipmentsAuth(r, c)
    \/ GetMyShipmentsFind(r)
    \/ GetMyShipmentsFindBids(r)
    \/ Retire(r)

NextBids == \E r \in Slots : StepBids(r)

SpecBids == InitBids /\ [][NextBids]_vars

----------------------------------------------------------------------------
(* Accepting bids in a store that holds two shipments *)

\* the store after shippers s1 and s2 have each posted one shipment and
\* drivers d1 and d2 have each bid on both
TwoShipments ==
    {[id |-> <<<<e, 0>>, 0>>, shipper_id |-> <<e, 0>>, status |-> "posted",
      created_at |-> IF e = "s1" THEN 1 ELSE 2] : e \in {"s1", "s2"}}

TwoBidsEach ==
    {[id |-> <<<<e, 0>>, s.id, 0>>, driver_id |-> <<e, 0>>,
      shipment_id |-> s.id, amount |-> IF e = "d1" THEN 700 ELSE 650,
      message |-> "none", status |-> "pending"]
        : e \in {"d1", "d2"}, s \in TwoShipments}

InitAccept ==
    /\ users = {[id |-> <<d.email, 0>>, email |-> d.email, role |-> d.role,
                 password_hash |-> hash_password(d.password, "salt")]
                    : d \in UserCreate}
    /\ shipments = TwoShipments
    /\ bids = TwoBidsEach
    /\ req = [r \in Slots |-> Idle]

StepAccept(r) ==
    \/ \E c \in Credentials, b \in BidIds : AcceptBidAuth(r, c, b)
    \/ AcceptBidFindBid(r)
    \/ AcceptBidFindShipment(r)
    \/ AcceptBidAccept(r)
    \/ AcceptBidReject(r)
    \/ AcceptBidClose(r)
    \/ Retire(r)

NextAccept == \E r \in Slots : StepAccept(r)

SpecAccept == InitAccept /\ [][NextAccept]_vars

----------------------------------------------------------------------------
(* Properties *)

BidsOf(shipment_id) == {b \in bids : b.shipment_id = shipment_id}
AcceptedOf(shipment_id) == {b \in BidsOf(shipment_id) : b.status = "accepted"}
Writing(r) == req[r].pc \in {"ab_accept", "ab_reject", "ab_close"}
Succeeded(r, op) ==
    req[r].op = op /\ req[r].pc = "done" /\ req[r].result = Ok

\* what accept_bid of slot r leaves behind
Accepted(r) ==
    /\ FindBid(req[r].bid_id).status = "accepted"
    /\ \A b \in BidsOf(req[r].bid_data) :
            b.id # req[r].bid_id => b.status = "rejected"
    /\ Cardinality(AcceptedOf(req[r].bid_data)) = 1
    /\ FindShipment(req[r].bid_data).status = "bidding_closed"

\* C1: when accept_bid on bid B of shipment S runs to completion with no other
\* request interleaved (SpecSeq), then at its return B is accepted, every
\* other bid on S is rejected, exactly one bid on S is accepted and S is
\* bidding_closed.
C1_AcceptOutcome ==
    [][\A r \in Slots :
         (req[r].pc = "ab_close" /\ req'[r].pc = "done") => Accepted(r)']_vars

\* an accept_bid has returned 200 on a shipment with a sibling bid
C1_Witness ==
    \E r \in Slots :
        /\ Succeeded(r, "accept_bid")
        /\ Accepted(r)
        /\ Cardinality(BidsOf(req[r].bid_data)) = 2

\* C2: in every reachable state a shipment has at most one accepted bid.
C2_AtMostOneAccepted ==
    \A s \in shipments : Cardinality(AcceptedOf(s.id)) <= 1

\* slots r1 and r2 hold requests that were in flight at the same time
Overlapped(r1, r2) == r1 \in req[r2].peers \/ r2 \in req[r1].peers

\* C3: two concurrent accept_bid requests for two different bids of the same
\* shipment do not both return 200.
C3_AtMostOneWins ==
    \A r1, r2 \in Slots :
        ( /\ r1 # r2
          /\ Overlapped(r1, r2)
          /\ req[r1].bid_id # req[r2].bid_id
          /\ req[r1].bid_data = req[r2].bid_data
          /\ Succeeded(r1, "accept_bid") )
        => ~Succeeded(r2, "accept_bid")

\* C4: accept_bid by the owning shipper on a bid that is already accepted or
\* rejected fails and writes nothing.
C4_ResolvedBidRefused ==
    \A r \in Slots :
        (req[r].op = "accept_bid" /\ req[r].resolved)
        => (~Writing(r) /\ ~Succeeded(r, "accept_bid"))

\* C5: a bid that is accepted stays accepted and a bid that is rejected stays
\* rejected, in every step.
C5_DecisionsFinal ==
    [][\A b \in bids :
         b.status \in {"accepted", "rejected"}
         => \E c \in bids' : c.id = b.id /\ c.status = b.status]_vars

\* C6: the bids collection holds at most one bid for each
\* (driver_id, shipment_id) pair.
C6_OneBidPerDriverShipment ==
    \A b1, b2 \in bids :
        (b1.driver_id = b2.driver_id /\ b1.shipment_id = b2.shipment_id)
        => b1.id = b2.id

\* C7: a create_bid by a driver who already has a bid on the shipment never
\* reaches the insert and is answered DuplicateBid, or ShipmentNotOpen when
\* the shipment is no longer posted.
C7_SecondBidRefused ==
    \A r \in Slots :
        (req[r].op = "create_bid" /\ req[r].had_bid)
        => /\ req[r].pc # "cb_insert"
           /\ req[r].pc = "done"
                => \/ req[r].result = DuplicateBid
                   \/ /\ req[r].result = ShipmentNotOpen
                      /\ ~IsPosted(FindShipment(req[r].bid_create.shipment_id))

\* a second create_bid of the same driver on a posted shipment was refused
C7_Witness ==
    \E r \in Slots :
        /\ req[r].op = "create_bid" /\ req[r].had_bid
        /\ req[r].pc = "done" /\ req[r].result = DuplicateBid
        /\ IsPosted(FindShipment(req[r].bid_create.shipment_id))

\* C8: once a shipment is bidding_closed no bid is added to it.
C8_NoBidAfterClose ==
    [][\A s \in shipments :
         s.status = "bidding_closed"
         => {b.id : b \in BidsOf(s.id)'} = {b.id : b \in BidsOf(s.id)}]_vars

\* the caller of slot r authenticated with the role the handler asks for
Authorized(r) == req[r].result.status_code \notin {401, 403}
                 \/ req[r].result = NotOwner

\* C9: create_bid by a driver on an existing shipment that is not posted
\* never reaches the duplicate check or the insert and is answered
\* ShipmentNotOpen.
C9_NotOpenRefused ==
    \A r \in Slots :
        (req[r].op = "create_bid" /\ req[r].not_open /\ Authorized(r))
        => /\ req[r].pc \notin {"cb_find_bid", "cb_insert"}
           /\ req[r].pc = "done" => req[r].result = ShipmentNotOpen

\* a driver's bid on a closed shipment was refused
C9_Witness ==
    \E r \in Slots :
        /\ req[r].op = "create_bid" /\ req[r].not_open
        /\ req[r].pc = "done" /\ req[r].result = ShipmentNotOpen

\* C10: accept_bid by a shipper who does not own the bid's shipment is
\* answered NotOwner and writes nothing; a request that writes belongs to the
\* shipment's shipper.
C10_OnlyOwnerAccepts ==
    \A r \in Slots :
        /\ (req[r].op = "accept_bid" /\ req[r].not_owner /\ Authorized(r))
            => /\ ~Writing(r)
               /\ req[r].pc = "done" => req[r].result = NotOwner
        /\ (Writing(r) \/ Succeeded(r, "accept_bid"))
            => FindShipment(req[r].bid_data).shipper_id = req[r].current_user

\* shipper s2 was refused on a bid of s1's shipment
C10_Witness ==
    \E r \in Slots :
        /\ req[r].op = "accept_bid" /\ req[r].not_owner
        /\ req[r].pc = "done" /\ req[r].result = NotOwner
        /\ req[r].current_user # NoUserId
        /\ FindBid(req[r].bid_id) # NoBid

RoleOf(user_id) == (CHOOSE u \in users : u.id = user_id).role

RequiredRole(op) ==
    CASE op = "create_shipment" -> "shipper"
      [] op = "create_bid" -> "driver"
      [] op = "accept_bid" -> "shipper"

Forbidden(op) ==
    CASE op = "create_shipment" -> ForbiddenShipment
      [] op = "create_bid" -> ForbiddenBid
      [] op = "accept_bid" -> ForbiddenAccept

Mutating == {"create_shipment", "create_bid", "accept_bid"}

\* C12: a create_shipment, create_bid or accept_bid whose caller has the wrong
\* role is answered 403 at once: it is never found at a later step of its
\* handler, so it reads and writes nothing.
C12_RoleCheckedFirst ==
    \A r \in Slots :
        ( /\ req[r].op \in Mutating
          /\ req[r].current_user # NoUserId
          /\ RoleOf(req[r].current_user) # RequiredRole(req[r].op) )
        => (req[r].pc = "done" /\ req[r].result = Forbidden(req[r].op))

\* a driver was refused an accept_bid on an existing bid
C12_Witness ==
    \E r \in Slots :
        /\ req[r].op = "accept_bid"
        /\ req[r].current_user # NoUserId
        /\ RoleOf(req[r].current_user) = "driver"
        /\ FindBid(req[r].bid_id) # NoBid
        /\ req[r].result = ForbiddenAccept

\* C13: a register_user whose email is registered when it arrives is answered
\* DuplicateEmail, whatever its password and role, and never reaches the
\* insert.
C13_TakenEmailRefused ==
    \A r \in Slots :
        (req[r].op = "register_user" /\ req[r].taken)
        => (req[r].pc = "done" /\ req[r].result = DuplicateEmail)

\* an email registered as one role was refused
C13_Witness ==
    \E r \in Slots :
        /\ req[r].op = "register_user" /\ req[r].taken
        /\ req[r].result = DuplicateEmail
        /\ Cardinality(users) = 1

\* C14: no two user records have the same email.
C14_EmailUnique ==
    \A u, v \in users : u.email = v.email => u = v

\* a register_user with this email and password has returned 200
RegisteredPair(email, password) ==
    \E u \in users :
        u.email = email /\ verify_password(password, u.password_hash)

\* C15: create_bid reports the first failing precondition in the order
\* shipment exists, shipment is posted, no bid of this driver yet.
C15_PreconditionOrder ==
    \A r \in Slots :
        (req[r].op = "create_bid" /\ Authorized(r))
        => /\ req[r].bid_create.shipment_id = NoShipmentId
                => /\ req[r].pc \in {"cb_find_shipment", "done"}
                   /\ req[r].pc = "done" => req[r].result = ShipmentNotFound
           /\ (req[r].not_open /\ req[r].had_bid /\ req[r].pc = "done")
                => req[r].result = ShipmentNotOpen
           /\ req[r].result = DuplicateBid
                => FindShipment(req[r].bid_create.shipment_id) # NoShipment

\* a driver who had a bid on a closed shipment was answered ShipmentNotOpen
C15_Witness ==
    \E r \in Slots :
        /\ req[r].op = "create_bid"
        /\ req[r].not_open /\ req[r].had_bid
        /\ req[r].result = ShipmentNotOpen

\* C16: the step of accept_bid that closes the shipment runs only on a posted
\* shipment: an accept_bid on a bid of a bidding_closed shipment does not
\* return 200.
C16_CloseNeedsPosted ==
    [][\A r \in Slots :
         (req[r].pc = "ab_close" /\ req'[r].pc = "done")
         => FindShipment(req[r].bid_data).status = "posted"]_vars

\* C17: a bid becomes accepted only in the update_one of an accept_bid that
\* names this bid and was sent by the shipper of the bid's shipment.
C17_OnlyAcceptBidAccepts ==
    [][\A b \in bids' :
         (b.status = "accepted" /\ FindBid(b.id).status # "accepted")
         => \E r \in Slots :
                /\ req[r].op = "accept_bid" /\ req[r].pc = "ab_accept"
                /\ req'[r].pc = "ab_reject"
                /\ req[r].bid_id = b.id
                /\ FindShipment(b.shipment_id).shipper_id
                        = req[r].current_user]_vars

\* the accept_bid naming a bid has returned 200 and the bid is accepted, with
\* a sibling that is not
C17_Witness ==
    \E r \in Slots :
        /\ Succeeded(r, "accept_bid")
        /\ FindBid(req[r].bid_id).status = "accepted"
        /\ \E b \in BidsOf(req[r].bid_data) : b.status # "accepted"

\* C18: a shipment is created posted, its status is always posted or
\* bidding_closed, and a bidding_closed shipment stays bidding_closed.
C18_StatusMoves ==
    [][\A s \in shipments' :
         /\ s.status \in {"posted", "bidding_closed"}
         /\ FindShipment(s.id) = NoShipment => s.status = "posted"
         /\ FindShipment(s.id).status = "bidding_closed"
                => s.status = "bidding_closed"]_vars

\* a shipment has been closed
C18_Witness ==
    \E s \in shipments : s.status = "bidding_closed"

\* C19: a login_user with a registered (email, password) pair is answered 200,
\* any other login_user 401.
C19_LoginMatchesRegistration ==
    [][\A r \in Slots :
         (req[r].pc = "idle" /\ req'[r].op = "login_user")
         => req'[r].result =
                IF RegisteredPair(req'[r].login_data.email,
                                  req'[r].login_data.password)
                THEN Ok ELSE InvalidCredentials]_vars

\* C20: get_shipments returns at most ListLimit shipments, all matching the
\* status filter, newest first, none twice, and when more match than it
\* returns, no shipment left out is newer than one returned.
C20_Listing ==
    \A r \in Slots :
        (req[r].op = "get_shipments" /\ req[r].pc = "done")
        => LET docs == req[r].listing
               match == Matching(req[r].status)
               listed == {docs[i] : i \in 1..Len(docs)}
           IN  /\ Len(docs) <= ListLimit
               /\ Len(docs) = ListLimit \/ Len(docs) = Cardinality(match)
               /\ listed \subseteq match
               /\ Cardinality(listed) = Len(docs)
               /\ \A i \in 1..(Len(docs) - 1) :
                        docs[i].created_at >= docs[i + 1].created_at
               /\ \A x \in match \ listed :
                        x.created_at <= docs[Len(docs)].created_at
               /\ req[r].status # "none"
                    => \A i \in 1..Len(docs) : docs[i].status = req[r].status

\* more than ListLimit posted shipments matched and ListLimit were returned
C20_Witness ==
    \E r \in Slots :
        /\ req[r].op = "get_shipments" /\ req[r].pc = "done"
        /\ req[r].status = "posted"
        /\ Cardinality(Matching("posted")) > ListLimit
        /\ Len(req[r].listing) = ListLimit

\* C21: each shipment that get_shipment or get_my_shipments returns comes with
\* exactly the bids placed on it, lowest amount first, and with their number
\* as bid_count.
C21_BidsOfShipment ==
    [][\A r \in Slots :
         ( /\ req[r].pc \in {"gs_find_bids", "gm_find_bids"}
           /\ req'[r].listing # req[r].listing )
         => LET e == req'[r].listing[Len(req'[r].listing)]
                mine == BidsOf(e.shipment.id)
            IN  /\ {e.bids[i] : i \in 1..Len(e.bids)} = mine
                /\ Len(e.bids) = Cardinality(mine)
                /\ \A i \in 1..(Len(e.bids) - 1) :
                        e.bids[i].amount <= e.bids[i + 1].amount
                /\ e.bid_count = Cardinality(mine)]_vars

\* C22: while no accept_bid is in flight, every bidding_closed shipment has
\* exactly one accepted bid and every posted shipment has only pending bids.
C22_StatusesAgree ==
    (\A r \in Slots : ~(req[r].op = "accept_bid" /\ InFlight(r)))
    => \A s \in shipments :
          /\ s.status = "bidding_closed"
                => Cardinality(AcceptedOf(s.id)) = 1
          /\ s.status = "posted"
                => \A b \in BidsOf(s.id) : b.status = "pending"

\* the registered user with this id has this role
IsRegistered(user_id, role) ==
    \E u \in users : u.id = user_id /\ u.role = role

\* C23: every bid names an existing shipment and a registered driver, and
\* every shipment names a registered shipper.
C23_ReferentialIntegrity ==
    /\ \A b \in bids :
            /\ \E s \in shipments : s.id = b.shipment_id
            /\ IsRegistered(b.driver_id, "driver")
    /\ \A s \in shipments : IsRegistered(s.shipper_id, "shipper")

\* a driver who registered while the auction ran has a bid on a shipment
C23_Witness ==
    \E b \in bids :
        /\ b.driver_id = <<"d2", 0>>
        /\ FindShipment(b.shipment_id) # NoShipment
        /\ \E r \in Slots : Succeeded(r, "create_bid")

\* the handler in slot r has written to the store and has not returned yet
HasWritten(r) == req[r].pc \in {"ab_reject", "ab_close"}

\* the response of slot r is an error
Failed(r) == req[r].pc = "done" /\ req[r].result # Ok

\* C24: a request that is answered with an error has written nothing: the
\* step that answers with an error changes no collection, no handler that
\* has written answers with an error, and every step that changes a
\* collection belongs to a handler that goes on or answers 200.
C24_ErrorsWriteNothing ==
    [][/\ \A r \in Slots :
            (req[r].pc # "done" /\ Failed(r)')
            => /\ UNCHANGED <<users, shipments, bids>>
               /\ ~HasWritten(r)
       /\ <<users, shipments, bids>> # <<users, shipments, bids>>'
            => \E r \in Slots :
                  /\ InFlight(r)
                  /\ req'[r].pc # req[r].pc
                  /\ HasWritten(r)' \/ Succeeded(r, req[r].op)']_vars

\* a create_bid was refused at its last check and an accept_bid at its last
\* check
C24_Witness ==
    \E r, q \in Slots :
        /\ req[r].op = "create_bid" /\ req[r].result = DuplicateBid
        /\ req[q].op = "accept_bid" /\ req[q].result = NotOwner

\* a document with its status left out
Unmarked(doc) == [doc EXCEPT !.status = "none"]

\* C25: each write of an accept_bid on a bid of shipment S changes nothing but
\* the status of bids on S and the status of S: the users, the other
\* shipments and their bids, and every bid's and shipment's other fields stay.
C25_AcceptFrame ==
    [][\A r \in Slots :
         (Writing(r) /\ req'[r].pc # req[r].pc)
         => LET S == req[r].bid_data
            IN  /\ users' = users
                /\ {s \in shipments' : s.id # S} = {s \in shipments : s.id # S}
                /\ {b \in bids' : b.shipment_id # S}
                        = {b \in bids : b.shipment_id # S}
                /\ {Unmarked(s) : s \in shipments'}
                        = {Unmarked(s) : s \in shipments}
                /\ {Unmarked(b) : b \in bids'} = {Unmarked(b) : b \in bids}
                /\ Cardinality(shipments') = Cardinality(shipments)
                /\ Cardinality(bids') = Cardinality(bids)]_vars

\* an accept_bid has returned 200 and closed its shipment while another
\* shipment is still posted with all its bids pending
C25_Witness ==
    \E r \in Slots :
        /\ Succeeded(r, "accept_bid")
        /\ FindShipment(req[r].bid_data).status = "bidding_closed"
        /\ \E s \in shipments :
                /\ s.id # req[r].bid_data /\ s.status = "posted"
                /\ BidsOf(s.id) # {}
                /\ \A b \in BidsOf(s.id) : b.status = "pending"

=============================================================================
